---- MODULE Spec2Model ----
(***************************************************************************)
(* The label-information-extraction pipeline of the filament inventory:    *)
(* process_scan (src/main.py) and the stages it composes, utils/ocr.py,    *)
(* utils/barcode_lookup.py and utils/lookup.py.                            *)
(*                                                                         *)
(* A text is a sequence of tokens.  Two neighbouring tokens are separated  *)
(* by one space; the token NL is a line break, written without spaces      *)
(* around it.  Every regular expression of the code is modelled by what it *)
(* matches on such a text: per token by a table over Vocab, across tokens  *)
(* by the neighbours that the expression lets it span.                     *)
(***************************************************************************)
EXTENDS Integers, Sequences, FiniteSets, Bags, TLC

VARIABLES
    pc,            \* the position of the scan request in process_scan
    image_ok,      \* preprocess_image returned an image
    barcode_data,  \* extract_barcode's result: None or Some([data, type])
    ocr,           \* what the OCR engine did: "missing", "error" or "ok"
    raw_text,      \* extract_text's result
    parsed_data,   \* the record being built
    pre_enhance,   \* history: the record as parse_filament_data returned it
    pre_web,       \* history: the record as the web-fallback test saw it
    calls,         \* history: the lookups called and requests issued, in order
    response,      \* the product catalogue's answer, once requested
    net,           \* the search engine's answer, once requested
    results,       \* lookup_filament_code: the result titles kept
    idx,           \* lookup_filament_code: how many titles were examined
    best_match,    \* lookup_filament_code: the accumulator
    web_data,      \* lookup_filament_code's return value
    cur,           \* the request whose handler the variables above belong to
    other,         \* the same variables of the other request, as a record
    files,         \* static/scan_<id>.jpg: for each path, the request that wrote it
    inventory,     \* the inventory table: id -> [user_id, quantity, brand]
    spool_history, \* the spool_history table: a bag of [user_id, brand, item_id]
    reply,         \* the answer to the last inventory call
    initial        \* history: the inventory table at the start

(* The variables of one request.                                           *)
scan == <<pc, image_ok, barcode_data, ocr, raw_text, parsed_data, pre_enhance, pre_web,
          calls, response, net, results, idx, best_match, web_data>>

vars == <<pc, image_ok, barcode_data, ocr, raw_text, parsed_data, pre_enhance, pre_web,
          calls, response, net, results, idx, best_match, web_data, cur, other, files,
          inventory, spool_history, reply, initial>>

(* The tables and the history of the inventory calls.                      *)
store == <<inventory, spool_history, reply, initial>>

----------------------------------------------------------------------------
(* Python values.  An optional value is None or Some(v); a dict is a       *)
(* function from its keys; d.get(k) is Get(d, k); `not x` is ~Truthy(k, x) *)
(* (None, 0, the empty string and the empty text are falsy).  A diameter   *)
(* is kept in hundredths of a millimetre, 1.75 as 175.                     *)

None == <<>>

Some(v) == <<v>>

IntKeys == {"weight_g", "diameter"}

TextKeys == {"raw_text", "title", "description", "product_title"}

Truthy(k, x) ==
    /\ x # None
    /\ CASE k \in IntKeys -> x[1] # 0
         [] k \in TextKeys -> x[1] # <<>>
         [] OTHER -> x[1] # ""

Get(d, k) == IF k \in DOMAIN d THEN d[k] ELSE None

Put(d, k, x) == [f \in (DOMAIN d) \cup {k} |-> IF f = k THEN x ELSE d[f]]

EmptyDict == [f \in {} |-> None]

----------------------------------------------------------------------------
(* Texts.                                                                  *)

NL == "\n"

Vocab ==
  { "Filament", "Code", "13612", "SKU:", "AB-1234", "Bambu", "Lab", "eSun", "PLA", "PLA+",
    "plus", "PETG", "Translucent", "Black", "Pine", "Green", "1kg", "250g", "5g", "1.0kg",
    "1.75mm", "2.85mm", "190-220°C", "190-220Â°C", "3D", "Printing", "spool", "eSUN", "ERROR:",
    "Tesseract", "OCR", "is", "not", "installed", "or", "in", "PATH.", "Please", "install",
    "it", "from", "https://github.com/UB-Mannheim/tesseract/wiki", "No", "text", "detected.",
    "Try", "better", "lighting", "get", "closer.", "Error:", "image", "file", "truncated" }

TokenWords(t) ==
    CASE t = "AB-1234" -> <<"ab", "1234">>
      [] t = "1.0kg" -> <<"1", "0kg">>
      [] t = "1.75mm" -> <<"1", "75mm">>
      [] t = "2.85mm" -> <<"2", "85mm">>
      [] t = "190-220°C" -> <<"190", "220", "c">>
      [] t = "190-220Â°C" -> <<"190", "220â", "c">>
      [] t = "https://github.com/UB-Mannheim/tesseract/wiki" -> <<"https", "github", "com", "ub", "mannheim", "tesseract", "wiki">>
      [] OTHER -> <<>>

LowerWord ==
    "Filament" :> "filament" @@ "Code" :> "code" @@ "13612" :> "13612" @@ "SKU:" :> "sku" @@
    "Bambu" :> "bambu" @@ "Lab" :> "lab" @@ "eSun" :> "esun" @@ "PLA" :> "pla" @@
    "PLA+" :> "pla" @@ "plus" :> "plus" @@ "PETG" :> "petg" @@ "Translucent" :> "translucent" @@
    "Black" :> "black" @@ "Pine" :> "pine" @@ "Green" :> "green" @@ "1kg" :> "1kg" @@
    "250g" :> "250g" @@ "5g" :> "5g" @@ "3D" :> "3d" @@ "Printing" :> "printing" @@
    "spool" :> "spool" @@ "eSUN" :> "esun" @@ "ERROR:" :> "error" @@
    "Tesseract" :> "tesseract" @@ "OCR" :> "ocr" @@ "is" :> "is" @@ "not" :> "not" @@
    "installed" :> "installed" @@ "or" :> "or" @@ "in" :> "in" @@ "PATH." :> "path" @@
    "Please" :> "please" @@ "install" :> "install" @@ "it" :> "it" @@ "from" :> "from" @@
    "No" :> "no" @@ "text" :> "text" @@ "detected." :> "detected" @@ "Try" :> "try" @@
    "better" :> "better" @@ "lighting" :> "lighting" @@ "get" :> "get" @@
    "closer." :> "closer" @@ "Error:" :> "error" @@ "image" :> "image" @@ "file" :> "file" @@
    "truncated" :> "truncated" @@ "Overture" :> "overture" @@ "Sunlu" :> "sunlu" @@
    "Polymaker" :> "polymaker" @@ "Hatchbox" :> "hatchbox" @@ "Prusament" :> "prusament" @@
    "Creality" :> "creality" @@ "Eryone" :> "eryone" @@ "Amolen" :> "amolen" @@
    "Inland" :> "inland" @@ "Flashforge" :> "flashforge" @@ "Elegoo" :> "elegoo" @@
    "Voxelab" :> "voxelab" @@ "White" :> "white" @@ "Gray" :> "gray" @@ "Grey" :> "grey" @@
    "Red" :> "red" @@ "Blue" :> "blue" @@ "Yellow" :> "yellow" @@ "Orange" :> "orange" @@
    "Purple" :> "purple" @@ "Pink" :> "pink" @@ "Brown" :> "brown" @@ "Silver" :> "silver" @@
    "Gold" :> "gold" @@ "Copper" :> "copper" @@ "Bronze" :> "bronze" @@ "Teal" :> "teal" @@
    "Cyan" :> "cyan" @@ "Magenta" :> "magenta" @@ "Lime" :> "lime" @@ "Olive" :> "olive" @@
    "Maroon" :> "maroon" @@ "Navy" :> "navy" @@ "Aquamarine" :> "aquamarine" @@
    "Turquoise" :> "turquoise" @@ "Violet" :> "violet" @@ "Indigo" :> "indigo" @@
    "Beige" :> "beige" @@ "Ivory" :> "ivory" @@ "Khaki" :> "khaki" @@ "Coral" :> "coral" @@
    "Salmon" :> "salmon" @@ "Crimson" :> "crimson" @@ "Lavender" :> "lavender" @@
    "Plum" :> "plum" @@ "Tan" :> "tan" @@ "Mint" :> "mint" @@ "Peach" :> "peach" @@
    "Charcoal" :> "charcoal" @@ "Slate" :> "slate" @@ "Galaxy" :> "galaxy" @@
    "Sparkle" :> "sparkle" @@ "Glow" :> "glow" @@ "Transparent" :> "transparent" @@
    "Clear" :> "clear" @@ "Natural" :> "natural"

(* The \w+ runs of a token, lowercased (the matching is IGNORECASE).       *)
Words(t) ==
    IF t = NL THEN <<>>
    ELSE IF TokenWords(t) # <<>> THEN TokenWords(t)
    ELSE <<LowerWord[t]>>

(* Tokens that do not end in a word character.                             *)
EndsWord(t) == t \notin {NL, "SKU:", "PLA+", "ERROR:", "PATH.", "detected.", "closer.", "Error:"}

(* Every token of Vocab starts with a word character.                      *)
StartsWord(t) == t # NL

(* The words of a brand or colour name.                                    *)
NameWords(n) ==
    CASE n = "Bambu Lab" -> <<"bambu", "lab">>
      [] n = "Pine Green" -> <<"pine", "green">>
      [] OTHER -> <<LowerWord[n]>>

(* re.search(rf"\b{name}\b", text, re.IGNORECASE)                          *)
WordMatch(name, text) ==
    LET nw == NameWords(name) IN
    IF Len(nw) = 1
    THEN \E i \in DOMAIN text : \E j \in DOMAIN Words(text[i]) : Words(text[i])[j] = nw[1]
    ELSE \E i \in 1..(Len(text) - 1) :
            LET a == Words(text[i])
                b == Words(text[i + 1])
            IN  /\ a # <<>> /\ b # <<>>
                /\ a[Len(a)] = nw[1] /\ EndsWord(text[i])
                /\ b[1] = nw[2] /\ StartsWord(text[i + 1])

(* The index of the first token after i that is not a line break, or 0.    *)
NextTok(text, i) ==
    LET js == {j \in (i + 1)..Len(text) : text[j] # NL}
    IN  IF js = {} THEN 0 ELSE CHOOSE j \in js : \A k \in js : j <= k

(* At most one whitespace character lies between tokens i and j.           *)
OneGap(text, i, j) == j = i + 1 \/ (j = i + 2 /\ text[i + 1] = NL)

(* The least element of a non-empty set of indices.                        *)
Least(S) == CHOOSE i \in S : \A k \in S : i <= k

----------------------------------------------------------------------------
(* The regular expressions of the matchers, per token of Vocab.            *)

(* r"\b(PLA(?:\+| plus)?|PETG|ABS(?:-GF)?|TPU|ASA|Nylon|PC|PVA|CF)\b" on   *)
(* one token: group(0).upper(), or "".  "PLA+" gives "PLA": no word        *)
(* boundary follows a "+" that ends the token.                             *)
MaterialTok(t) ==
    CASE t \in {"PLA", "PLA+"} -> "PLA"
      [] t = "PETG" -> "PETG"
      [] OTHER -> ""

(* The match is "PLA" at the end of the token, so " plus" may extend it.   *)
PlaAtEnd(t) == t = "PLA"

(* The token starts with the word "plus".                                  *)
IsPlus(t) == t = "plus"

(* r"(Basic|Matte|Silk|Translucent|Galaxy|Sparkle|Wood|Carbon Fiber)"      *)
SubtypeTok(t) == IF t = "Translucent" THEN "Translucent" ELSE ""

(* r"(\d{1,4})\s?(g|kg)" inside one token: <<digits, unit>> or <<>>.       *)
(* In "1.0kg" the match is "0kg".                                          *)
WeightTok(t) ==
    CASE t = "1kg" -> <<1, "kg">>
      [] t = "250g" -> <<250, "g">>
      [] t = "5g" -> <<5, "g">>
      [] t = "1.0kg" -> <<0, "kg">>
      [] OTHER -> <<>>

(* The digits a token ends with, as \d{1,4} before a following unit takes  *)
(* them (the last four), or -1.                                            *)
TrailDigits(t) ==
    CASE t = "13612" -> 3612
      [] t = "AB-1234" -> 1234
      [] OTHER -> -1

(* The digits a token ends with, as \d+ takes them (all), or -1.           *)
TrailDigitsAll(t) ==
    CASE t = "13612" -> 13612
      [] t = "AB-1234" -> 1234
      [] OTHER -> -1

(* (g|kg), IGNORECASE, at the start of a token: the unit, or "".           *)
LeadUnit(t) == IF t \in {"Green", "get"} THEN "g" ELSE ""

(* r"(\d{2,3})\s?-\s?(\d{2,3})\s?Â°?C": the source's pattern asks for the   *)
(* character "Â" before the optional degree sign.                          *)
TempTok(t) == IF t = "190-220Â°C" THEN "190-220" ELSE ""

(* r"(1\.75|2\.85|3\.00)\s?mm", in hundredths, or 0.                       *)
DiaTok(t) ==
    CASE t = "1.75mm" -> 175
      [] t = "2.85mm" -> 285
      [] OTHER -> 0

(* (\d{5}): the first five digits in a row, or "".                         *)
Digits5(t) == IF t = "13612" THEN "13612" ELSE ""

(* "Filament" ends the token; "Code" starts it (IGNORECASE, no \b).        *)
EndsFilament(t) == t = "Filament"

StartsCode(t) == t = "Code"

(* (?:SKU|Ref|P/N) followed by nothing but [.:)] up to the token's end.    *)
IsCodeKey(t) == t = "SKU:"

NoCodePrefix ==
    {NL, "SKU:", "Lab", "PLA", "PLA+", "1kg", "5g", "1.0kg", "1.75mm", "2.85mm", "3D", "OCR",
     "is", "not", "or", "in", "it", "No", "Try", "get"}

(* ([A-Z0-9-]{4,15}), IGNORECASE, at the start of a token, or "".          *)
CodePrefix(t) ==
    CASE t \in NoCodePrefix -> ""
      [] t \in {"190-220°C", "190-220Â°C"} -> "190-220"
      [] t = "ERROR:" -> "ERROR"
      [] t = "Error:" -> "Error"
      [] t = "PATH." -> "PATH"
      [] t = "detected." -> "detected"
      [] t = "closer." -> "closer"
      [] t = "https://github.com/UB-Mannheim/tesseract/wiki" -> "https"
      [] OTHER -> t

----------------------------------------------------------------------------
(* utils/ocr.py: parse_filament_data.                                      *)

(* re.search(r"Filament\s*Code.*?(\d{5})", text, IGNORECASE | DOTALL):     *)
(* the leftmost "Filament", white space, "Code" with five digits somewhere *)
(* after it; group(1) is the first such run of digits.                     *)
FcMatch(text) ==
    LET After(i) == {k \in (NextTok(text, i) + 1)..Len(text) : Digits5(text[k]) # ""}
        starts == {i \in DOMAIN text :
                      /\ EndsFilament(text[i])
                      /\ NextTok(text, i) # 0
                      /\ StartsCode(text[NextTok(text, i)])
                      /\ After(i) # {}}
    IN  IF starts = {} THEN None
        ELSE Some(Digits5(text[Least(After(Least(starts)))]))

(* re.search(r"(?:SKU|Ref|P/N)[\s.:)]+([A-Z0-9-]{4,15})", text, IGNORECASE) *)
SkuMatch(text) ==
    LET starts == {i \in DOMAIN text :
                      /\ IsCodeKey(text[i])
                      /\ NextTok(text, i) # 0
                      /\ CodePrefix(text[NextTok(text, i)]) # ""}
    IN  IF starts = {} THEN None
        ELSE Some(CodePrefix(text[NextTok(text, Least(starts))]))

brands_ocr ==
    <<"Bambu", "Overture", "eSun", "Sunlu", "Polymaker", "Hatchbox", "Prusament", "Creality",
      "Eryone", "Amolen", "Inland">>

(* for brand in brands: if re.search(...): ...; break                      *)
FirstBrand(brands, text) ==
    LET hits == {b \in DOMAIN brands : WordMatch(brands[b], text)}
    IN  IF hits = {} THEN None ELSE Some(brands[Least(hits)])

(* The material match and the subtype appended to it.                      *)
MaterialMatch(text) ==
    LET hits == {i \in DOMAIN text : MaterialTok(text[i]) # ""}
        subs == {i \in DOMAIN text : SubtypeTok(text[i]) # ""}
    IN  IF hits = {} THEN None
        ELSE LET i == Least(hits)
                 base == IF /\ PlaAtEnd(text[i]) /\ i < Len(text)
                            /\ IsPlus(text[i + 1])
                         THEN "PLA PLUS"
                         ELSE MaterialTok(text[i])
             IN  IF subs = {} THEN Some(base)
                 ELSE Some(base \o " " \o SubtypeTok(text[Least(subs)]))

(* re.search(r"(\d{1,4})\s?(g|kg)", text, IGNORECASE): <<digits, unit>> of *)
(* the leftmost match, inside a token or from the digits that end a token  *)
(* to a unit letter that starts the next, one white space apart at most.   *)
WeightAt(text, i) ==
    IF WeightTok(text[i]) # <<>> THEN WeightTok(text[i])
    ELSE IF /\ TrailDigits(text[i]) >= 0
            /\ NextTok(text, i) # 0
            /\ OneGap(text, i, NextTok(text, i))
            /\ LeadUnit(text[NextTok(text, i)]) # ""
         THEN <<TrailDigits(text[i]), LeadUnit(text[NextTok(text, i)])>>
         ELSE <<>>

WeightMatch(text) ==
    LET hits == {i \in DOMAIN text : WeightAt(text, i) # <<>>}
    IN  IF hits = {} THEN <<>> ELSE WeightAt(text, Least(hits))

(* if unit == 'kg' or (unit == 'g' and val < 10): val *= 1000              *)
OcrWeight(m) ==
    IF m[2] = "kg" \/ (m[2] = "g" /\ m[1] < 10) THEN m[1] * 1000 ELSE m[1]

TempMatch(text) ==
    LET hits == {i \in DOMAIN text : TempTok(text[i]) # ""}
    IN  IF hits = {} THEN None ELSE Some(TempTok(text[Least(hits)]))

DiaMatch(text) ==
    LET hits == {i \in DOMAIN text : DiaTok(text[i]) # 0}
    IN  IF hits = {} THEN None ELSE Some(DiaTok(text[Least(hits)]))

colors ==
  << <<"Black", "#000000">>, <<"White", "#FFFFFF">>, <<"Gray", "#808080">>,
    <<"Grey", "#808080">>, <<"Red", "#FF0000">>, <<"Blue", "#0000FF">>, <<"Green", "#008000">>,
    <<"Yellow", "#FFFF00">>, <<"Orange", "#FFA500">>, <<"Purple", "#800080">>,
    <<"Pink", "#FFC0CB">>, <<"Brown", "#A52A2A">>, <<"Silver", "#C0C0C0">>,
    <<"Gold", "#FFD700">>, <<"Copper", "#B87333">>, <<"Bronze", "#CD7F32">>,
    <<"Teal", "#008080">>, <<"Cyan", "#00FFFF">>, <<"Magenta", "#FF00FF">>,
    <<"Lime", "#00FF00">>, <<"Olive", "#808000">>, <<"Maroon", "#800000">>,
    <<"Navy", "#000080">>, <<"Aquamarine", "#7FFFD4">>, <<"Turquoise", "#40E0D0">>,
    <<"Violet", "#EE82EE">>, <<"Indigo", "#4B0082">>, <<"Beige", "#F5F5DC">>,
    <<"Ivory", "#FFFFF0">>, <<"Khaki", "#F0E68C">>, <<"Coral", "#FF7F50">>,
    <<"Salmon", "#FA8072">>, <<"Crimson", "#DC143C">>, <<"Lavender", "#E6E6FA">>,
    <<"Plum", "#DDA0DD">>, <<"Tan", "#D2B48C">>, <<"Mint", "#98FF98">>, <<"Peach", "#FFDAB9">>,
    <<"Charcoal", "#36454F">>, <<"Slate", "#708090">>, <<"Galaxy", "#222222">>,
    <<"Sparkle", "#444444">>, <<"Glow", "#CCFFCC">>, <<"Transparent", "#EFEFEF">>,
    <<"Clear", "#EFEFEF">>, <<"Natural", "#F5F5DC">>, <<"Pine Green", "#01796F">> >>

ColorNames == [i \in DOMAIN colors |-> colors[i][1]]

ColorHex(name) == colors[CHOOSE i \in DOMAIN colors : colors[i][1] = name][2]

(* The names in the dictionary's order, not sorted by length.              *)
Unsorted(names) == names

(* sorted(colors.keys(), key=len, reverse=True): a stable sort, so names   *)
(* of one length keep the dictionary's order.                              *)
SortByLenDesc(names) ==
    LET Before(i, j) == \/ Len(names[i]) > Len(names[j])
                        \/ (Len(names[i]) = Len(names[j]) /\ i < j)
        Pos(i) == 1 + Cardinality({j \in DOMAIN names : Before(j, i)})
    IN  [p \in DOMAIN names |-> names[CHOOSE i \in DOMAIN names : Pos(i) = p]]

SortedColorNames == SortByLenDesc(ColorNames)

(* for color_name in sorted(...): if re.search(...): ...; break            *)
ColorMatch(text) ==
    LET hits == {c \in DOMAIN SortedColorNames : WordMatch(SortedColorNames[c], text)}
    IN  IF hits = {} THEN None ELSE Some(SortedColorNames[Least(hits)])

(* A decoded barcode is [data |-> payload, type |-> symbology].            *)
RetailTypes == {"EAN13", "UPCA", "EAN8", "UPCE"}

(* "bambulab" in barcode_data.get("data", "").lower(), over Payloads.      *)
HasBambulab(data) == data \in {"https://bambulab.com/f/13612"}

(* ocr.py 104-115: the fields a decoded barcode sets before the text is    *)
(* matched.                                                                *)
BarcodeOverride(d, barcode) ==
    IF barcode = None THEN d
    ELSE LET b == barcode[1]
             d1 == Put(Put(d, "barcode", Some(b.data)), "barcode_type", Some(b.type))
             d2 == IF b.type \in RetailTypes
                   THEN Put(d1, "filament_code", Some(b.data)) ELSE d1
         IN  IF b.type = "QRCODE" /\ HasBambulab(b.data)
             THEN Put(d2, "brand", Some("Bambu Lab")) ELSE d2

(* ocr.py 125-132: the filament code found in the text is stored whether   *)
(* or not the barcode already set one.                                     *)
StoreFilamentCode(d, text) ==
    IF FcMatch(text) # None THEN Put(d, "filament_code", FcMatch(text))
    ELSE IF SkuMatch(text) # None THEN Put(d, "filament_code", SkuMatch(text))
    ELSE d

(* ocr.py 135-139                                                          *)
StoreBrand(d, text) ==
    IF FirstBrand(brands_ocr, text) # None
    THEN Put(d, "brand", FirstBrand(brands_ocr, text)) ELSE d

(* ocr.py 142-148                                                          *)
StoreMaterial(d, text) ==
    IF MaterialMatch(text) # None THEN Put(d, "material", MaterialMatch(text)) ELSE d

(* ocr.py 151-157                                                          *)
StoreWeight(d, text) ==
    IF WeightMatch(text) # <<>>
    THEN Put(d, "weight_g", Some(OcrWeight(WeightMatch(text)))) ELSE d

(* ocr.py 160-167                                                          *)
StoreTempDia(d, text) ==
    LET d1 == IF TempMatch(text) # None THEN Put(d, "temp_nozzle", TempMatch(text)) ELSE d
    IN  IF DiaMatch(text) # None THEN Put(d1, "diameter", DiaMatch(text)) ELSE d1

(* StoreColor without the line that stores color_hex.                      *)
StoreColorNameOnly(d, text) ==
    IF ColorMatch(text) # None THEN Put(d, "color_name", ColorMatch(text)) ELSE d

(* ocr.py 186-190                                                          *)
StoreColor(d, text) ==
    IF ColorMatch(text) # None
    THEN Put(Put(d, "color_name", ColorMatch(text)),
             "color_hex", Some(ColorHex(ColorMatch(text)[1])))
    ELSE d

DefaultDiameter == 175

(* NewRecord as one dict shared by all calls: the fields the other request *)
(* left in it are still there.                                             *)
NewRecordShared(text) ==
    IF other.pc = "done"
    THEN Put(other.parsed_data, "raw_text", Some(text))
    ELSE [brand |-> None, material |-> None, weight_g |-> None,
          diameter |-> Some(DefaultDiameter), temp_nozzle |-> None, color_name |-> None,
          filament_code |-> None, raw_text |-> Some(text), barcode |-> None,
          barcode_type |-> None]

(* ocr.py 91-102                                                           *)
NewRecord(text) ==
    [brand |-> None, material |-> None, weight_g |-> None,
     diameter |-> Some(DefaultDiameter), temp_nozzle |-> None, color_name |-> None,
     filament_code |-> None, raw_text |-> Some(text), barcode |-> None, barcode_type |-> None]

parse_filament_data(text, barcode) ==
    StoreColor(StoreTempDia(StoreWeight(StoreMaterial(StoreBrand(
        StoreFilamentCode(BarcodeOverride(NewRecord(text), barcode), text),
        text), text), text), text), text)

----------------------------------------------------------------------------
(* utils/lookup.py: parse_string_info.                                     *)

brands_web ==
    <<"Bambu Lab", "Bambu", "Overture", "eSun", "Sunlu", "Polymaker", "Hatchbox", "Prusament",
      "Creality", "Eryone", "Amolen", "Inland", "Flashforge", "Elegoo", "Voxelab">>

(* lookup.py 77: if brand.lower() == "bambu": data["brand"] = "Bambu Lab"  *)
NormalizeBrand(brand) == IF brand = "Bambu" THEN "Bambu Lab" ELSE brand

(* lookup.py 117-118: if unit == 'kg': val *= 1000                         *)
WebWeight(m) == IF m[2] = "kg" THEN m[1] * 1000 ELSE m[1]

parse_string_info(text) ==
    LET b == FirstBrand(brands_web, text)
        d1 == IF b # None THEN Put(EmptyDict, "brand", Some(NormalizeBrand(b[1])))
              ELSE EmptyDict
        d2 == IF MaterialMatch(text) # None
              THEN Put(d1, "material", MaterialMatch(text)) ELSE d1
        d3 == StoreColor(d2, text)
    IN  IF WeightMatch(text) # <<>>
        THEN Put(d3, "weight_g", Some(WebWeight(WeightMatch(text)))) ELSE d3

----------------------------------------------------------------------------
(* utils/barcode_lookup.py.  The answer of the product catalogue to one    *)
(* requests.get is [kind, status, items]: kind "ok" is a response whose    *)
(* body parses as JSON, any other kind names the exception raised inside   *)
(* the try block.  An item is [brand, title, description], each optional.  *)

(* "pla" in combined_text, ... : the lowercased token holds the substring. *)
SubMaterial(t) ==
    CASE t \in {"PLA", "PLA+"} -> "PLA"
      [] t = "PETG" -> "PETG"
      [] OTHER -> ""

(* barcode_lookup.py 46-53: PLA before PETG before ABS before TPU.         *)
ProductMaterial(text) ==
    LET found == {SubMaterial(text[i]) : i \in DOMAIN text}
    IN  IF "PLA" \in found THEN Some("PLA")
        ELSE IF "PETG" \in found THEN Some("PETG")
        ELSE IF "ABS" \in found THEN Some("ABS")
        ELSE IF "TPU" \in found THEN Some("TPU")
        ELSE None

(* r"(\d+)\s?(kg|g)" on the lowercased text, inside one token.             *)
ProductWeightTok(t) ==
    CASE t = "1kg" -> <<1, "kg">>
      [] t = "250g" -> <<250, "g">>
      [] t = "5g" -> <<5, "g">>
      [] t = "1.0kg" -> <<0, "kg">>
      [] OTHER -> <<>>

ProductWeightAt(text, i) ==
    IF ProductWeightTok(text[i]) # <<>> THEN ProductWeightTok(text[i])
    ELSE IF /\ TrailDigitsAll(text[i]) >= 0
            /\ NextTok(text, i) # 0
            /\ OneGap(text, i, NextTok(text, i))
            /\ LeadUnit(text[NextTok(text, i)]) # ""
         THEN <<TrailDigitsAll(text[i]), LeadUnit(text[NextTok(text, i)])>>
         ELSE <<>>

(* barcode_lookup.py 57-63                                                 *)
ProductWeight(text) ==
    LET hits == {i \in DOMAIN text : ProductWeightAt(text, i) # <<>>}
    IN  IF hits = {} THEN None
        ELSE LET m == ProductWeightAt(text, Least(hits))
             IN  Some(IF m[2] = "kg" THEN m[1] * 1000 ELSE m[1])

(* barcode_lookup.py 66-69: "1.75" in combined_text, elif "2.85".          *)
ProductDiameter(text) ==
    IF \E i \in DOMAIN text : text[i] = "1.75mm" THEN Some(175)
    ELSE IF \E i \in DOMAIN text : text[i] = "2.85mm" THEN Some(285)
    ELSE None

OrEmpty(t) == IF t = None THEN <<>> ELSE t[1]

(* barcode_lookup.py 30-71: product_data of the first item.  The keys      *)
(* category and images, which nothing reads, are left out.                 *)
ProductData(item, barcode, barcode_type) ==
    LET text == OrEmpty(item.title) \o OrEmpty(item.description)
        d0 == [brand |-> item.brand, title |-> item.title,
               description |-> item.description,
               barcode |-> Some(barcode), barcode_type |-> Some(barcode_type)]
        d1 == IF ProductMaterial(text) # None
              THEN Put(d0, "material", ProductMaterial(text)) ELSE d0
        d2 == IF ProductWeight(text) # None
              THEN Put(d1, "weight_g", ProductWeight(text)) ELSE d1
    IN  IF ProductDiameter(text) # None
        THEN Put(d2, "diameter", ProductDiameter(text)) ELSE d2

HttpOk == 200

(* lookup_barcode_product without the test of the status code.            *)
lookup_barcode_product_any_status(barcode, barcode_type, resp) ==
    IF resp.kind # "ok" THEN None
    ELSE IF Len(resp.items) > 0
    THEN Some(ProductData(resp.items[1], barcode, barcode_type))
    ELSE None

(* barcode_lookup.py 4-76: None on an exception, on a status other than    *)
(* 200 and on an empty item list.                                          *)
lookup_barcode_product(barcode, barcode_type, resp) ==
    IF resp.kind # "ok" THEN None
    ELSE IF resp.status = HttpOk /\ Len(resp.items) > 0
    THEN Some(ProductData(resp.items[1], barcode, barcode_type))
    ELSE None

(* LookupGate without the test of the symbology.                           *)
LookupGateAnyType(barcode) == barcode # None /\ barcode[1].data # ""

(* barcode_lookup.py 84-89: the two early returns before the lookup.       *)
LookupGate(barcode) ==
    /\ barcode # None
    /\ barcode[1].data # ""
    /\ barcode[1].type \in RetailTypes

(* FillFromProduct without the test that the record's field is empty.      *)
FillFromProductAlways(d, k, info) ==
    IF Truthy(k, Get(info, k)) THEN Put(d, k, Get(info, k)) ELSE d

(* barcode_lookup.py 101-111:                                              *)
(* if not parsed_data.get(k) and product_info.get(k): parsed_data[k] = ... *)
FillFromProduct(d, k, info) ==
    IF ~Truthy(k, Get(d, k)) /\ Truthy(k, Get(info, k)) THEN Put(d, k, Get(info, k)) ELSE d

(* barcode_lookup.py 97-117: the merge of a product into the record.       *)
MergeProduct(d, product_info) ==
    IF product_info = None THEN d
    ELSE LET info == product_info[1]
             d4 == FillFromProduct(FillFromProduct(FillFromProduct(FillFromProduct(
                       d, "brand", info), "material", info), "weight_g", info),
                       "diameter", info)
         IN  IF Truthy("title", Get(info, "title"))
             THEN Put(d4, "product_title", Get(info, "title")) ELSE d4

----------------------------------------------------------------------------
(* utils/lookup.py: lookup_filament_code.  The search engine's answer to   *)
(* the one requests.get is [kind, status, links]: kind "ok" is a response  *)
(* whose HTML parses, with the texts of its result links in page order;    *)
(* any other kind names the exception raised inside the try block.         *)

TopN == 5

(* lookup.py 28: links[:5]                                                 *)
Top(links) == SubSeq(links, 1, IF Len(links) < TopN THEN Len(links) ELSE TopN)

(* lookup.py 24-34: the titles kept from a response.                       *)
ResultsOf(r) == IF r.status = HttpOk THEN Top(r.links) ELSE <<>>

(* The keys parse_string_info can set, in the order it sets them.          *)
InfoKeys == <<"brand", "material", "color_name", "color_hex", "weight_g">>

(* Accumulate without the test that best_match's field is empty.           *)
AccumulateOverwrite(bm, k, v) == IF Truthy(k, v) THEN Put(bm, k, v) ELSE bm

(* lookup.py 55-56: if not best_match.get(k) and v: best_match[k] = v      *)
Accumulate(bm, k, v) ==
    IF ~Truthy(k, Get(bm, k)) /\ Truthy(k, v) THEN Put(bm, k, v) ELSE bm

RECURSIVE AccumulateFrom(_, _, _)
(* lookup.py 54-56: for k, v in parsed.items(), from the i-th key on.      *)
AccumulateFrom(bm, parsed, i) ==
    IF i > Len(InfoKeys) THEN bm
    ELSE AccumulateFrom(IF InfoKeys[i] \in DOMAIN parsed
                        THEN Accumulate(bm, InfoKeys[i], parsed[InfoKeys[i]])
                        ELSE bm,
                        parsed, i + 1)

(* lookup.py 59: the test that leaves the loop early.                      *)
EarlyStop(bm) ==
    /\ Truthy("brand", Get(bm, "brand"))
    /\ Truthy("material", Get(bm, "material"))
    /\ Truthy("color_name", Get(bm, "color_name"))

----------------------------------------------------------------------------
(* main.py: process_scan.                                                  *)

(* NeedsWeb as it was before color_name joined the test.                   *)
NeedsWebBrandMaterial(d) ==
    /\ Truthy("filament_code", Get(d, "filament_code"))
    /\ \/ ~Truthy("brand", Get(d, "brand"))
       \/ ~Truthy("material", Get(d, "material"))

(* main.py 330-334: the test that starts the web lookup.                   *)
NeedsWeb(d) ==
    /\ Truthy("filament_code", Get(d, "filament_code"))
    /\ \/ ~Truthy("brand", Get(d, "brand"))
       \/ ~Truthy("material", Get(d, "material"))
       \/ ~Truthy("color_name", Get(d, "color_name"))

(* FillFromWeb without the test that the record's field is empty.          *)
FillFromWebAlways(d, k, v) == IF Truthy(k, v) THEN Put(d, k, v) ELSE d

(* main.py 341-342: if not parsed_data.get(k) and v: parsed_data[k] = v    *)
FillFromWeb(d, k, v) ==
    IF ~Truthy(k, Get(d, k)) /\ Truthy(k, v) THEN Put(d, k, v) ELSE d

RECURSIVE MergeWebFrom(_, _, _)
(* main.py 340-343: for k, v in web_data.items(), from the i-th key on.    *)
MergeWebFrom(d, web, i) ==
    IF i > Len(InfoKeys) THEN d
    ELSE MergeWebFrom(IF InfoKeys[i] \in DOMAIN web
                      THEN FillFromWeb(d, InfoKeys[i], web[InfoKeys[i]])
                      ELSE d,
                      web, i + 1)

(* ocr.py 69-83: extract_barcode on what the decoder did, [raised,         *)
(* objects]: it raised, or it found the objects, in the decoder's order.   *)
extract_barcode(decoded) ==
    IF decoded.raised THEN None
    ELSE IF Len(decoded.objects) > 0 THEN Some(decoded.objects[1])
    ELSE None

EngineMissing ==
    <<"ERROR:", "Tesseract", "OCR", "is", "not", "installed", "or", "not", "in", "PATH.",
      "Please", "install", "it", "from", "https://github.com/UB-Mannheim/tesseract/wiki">>

NoTextDetected ==
    <<"No", "text", "detected.", "Try", "better", "lighting", "or", "get", "closer.">>

OcrError == <<"OCR", "Error:", "image", "file", "is", "truncated">>

(* full_text.strip() is empty                                              *)
Blank(text) == \A i \in DOMAIN text : text[i] = NL

(* extract_text without the check of the engine before the try block: the  *)
(* first image_to_string raises and the except clause answers.             *)
extract_text_unchecked(engine, o1, o2, o3) ==
    IF engine \in {"missing", "error"} THEN OcrError
    ELSE LET full_text == o1 \o <<NL>> \o o2 \o <<NL>> \o o3
         IN  IF Blank(full_text) THEN NoTextDetected ELSE full_text

(* ocr.py 24-62: extract_text on what the engine did and the texts it      *)
(* read from the three variants of the image.                              *)
extract_text(engine, o1, o2, o3) ==
    IF engine = "missing" THEN EngineMissing
    ELSE IF engine = "error" THEN OcrError
    ELSE LET full_text == o1 \o <<NL>> \o o2 \o <<NL>> \o o3
         IN  IF Blank(full_text) THEN NoTextDetected ELSE full_text

----------------------------------------------------------------------------
(* The inputs of a scan.                                                   *)

MaxCodes == 2

MaxScanLinks == 2

MaxLinks == 6

SeqsUpTo(S, n) == UNION {[1..k -> S] : k \in 0..n}

Barcodes ==
    { [data |-> "012345678905", type |-> "EAN13"],
      [data |-> "04963406", type |-> "EAN8"],
      [data |-> "https://bambulab.com/f/13612", type |-> "QRCODE"],
      [data |-> "", type |-> "QRCODE"],
      [data |-> "AB-1234", type |-> "CODE128"] }

Decodes ==
    {[raised |-> TRUE, objects |-> <<>>]}
        \cup {[raised |-> FALSE, objects |-> s] : s \in SeqsUpTo(Barcodes, MaxCodes)}

(* What the engine reads from one variant of the image.                    *)
OcrOutputs ==
    { <<>>,
      <<"Filament", "Code", "13612">>,
      <<"eSun", "PLA+", "Black", "1.75mm", "1kg", "190-220°C">>,
      <<"Bambu", "PETG", "Translucent", "2.85mm">>,
      <<"SKU:", "AB-1234", "Pine", "Green", "1.0kg">> }

Items ==
    { [brand |-> Some("eSUN"), title |-> Some(<<"eSUN", "PLA+", "1kg", "1.75mm">>),
       description |-> None],
      [brand |-> None, title |-> Some(<<"PETG", "250g">>),
       description |-> Some(<<"2.85mm", "spool">>)],
      [brand |-> Some(""), title |-> None, description |-> None] }

NoProduct == [kind |-> "none", status |-> 0, items |-> <<>>]

ProductResponses ==
    { [kind |-> "ConnectionError", status |-> 0, items |-> <<>>],
      [kind |-> "Timeout", status |-> 0, items |-> <<>>],
      [kind |-> "JSONDecodeError", status |-> 200, items |-> <<>>],
      [kind |-> "ok", status |-> 429, items |-> <<>>],
      [kind |-> "ok", status |-> 200, items |-> <<>>] }
        \cup {[kind |-> "ok", status |-> st, items |-> <<i>>] : i \in Items, st \in {200, 500}}

Titles ==
    { <<"eSun", "PLA+", "Black">>,
      <<"Bambu", "Lab", "PETG", "1kg">>,
      <<"Pine", "Green", "250g", "spool">>,
      <<"3D", "Printing", "1.0kg">> }

NoSearch == [kind |-> "none", status |-> 0, links |-> <<>>]

SearchResponses(n) ==
    { [kind |-> "ConnectionError", status |-> 0, links |-> <<>>],
      [kind |-> "Timeout", status |-> 0, links |-> <<>>],
      [kind |-> "ParseError", status |-> 200, links |-> <<>>],
      [kind |-> "ok", status |-> 503, links |-> <<>>] }
        \cup {[kind |-> "ok", status |-> 200, links |-> l] : l \in SeqsUpTo(Titles, n)}

(* parse_string_info on each title a response can hold.                    *)
TitleInfo == [t \in Titles |-> parse_string_info(t)]

(* main.py 131-261: the inventory calls.  A row of the inventory table is   *)
(* [user_id, quantity, brand]; brand stands for the text columns that       *)
(* combine_spools merges and consume_spool copies.  The table is a          *)
(* function from the ids of its rows.                                       *)

Users == {"A", "B"}

ItemIds == {1, 2, 3}

Brands == {"", "eSun", "Bambu Lab"}

MaxQty == 2

(* The answers of the calls.                                                *)
NoReply == [status |-> 0]

Ok == [status |-> 200]

NotFound == [status |-> 404]

BadRequest == [status |-> 400]

(* No table: the scan does not use the database.                            *)
NoStore ==
    /\ inventory = <<>>
    /\ spool_history = EmptyBag
    /\ reply = NoReply
    /\ initial = <<>>

(* The filter without `Inventory.user_id == user.id`: the ids of all rows.  *)
OwnedAny(user) == DOMAIN inventory

(* filter(Inventory.user_id == user.id): the ids of the user's rows.        *)
Owned(user) == {i \in DOMAIN inventory : inventory[i].user_id = user}

(* The table without the rows of ids.                                       *)
Without(ids) == [i \in (DOMAIN inventory) \ ids |-> inventory[i]]

-----------------------------------------------------------------------------

(* The requests being served.  main.py 295-296: the image of a request is  *)
(* saved under a path made from a fresh uuid4, so two requests never have  *)
(* the same path.                                                          *)
Requests == {1, 2}

FilePath(r) == r

Paths == {FilePath(r) : r \in Requests}

(* No second request.                                                      *)
NoRequest == [pc |-> "none"]

(* A single request, its image saved.                                      *)
Alone ==
    /\ cur = 1
    /\ other = NoRequest
    /\ files = [p \in Paths |-> IF p = FilePath(1) THEN 1 ELSE 0]
    /\ NoStore
----------------------------------------------------------------------------
(* One scan request, step by step.                                         *)

Init ==
    /\ pc = "start"
    /\ Alone
    /\ image_ok = FALSE
    /\ barcode_data = None
    /\ ocr = "none"
    /\ raw_text = <<>>
    /\ parsed_data = EmptyDict
    /\ pre_enhance = EmptyDict
    /\ pre_web = EmptyDict
    /\ calls = <<>>
    /\ response = NoProduct
    /\ net = NoSearch
    /\ results = <<>>
    /\ idx = 0
    /\ best_match = EmptyDict
    /\ web_data = EmptyDict

(* main.py 305-307, 351-355: preprocess_image (ocr.py 13-22) returns the   *)
(* image, or None when opening it raised; None ends the scan with status   *)
(* "error".                                                                *)
Preprocess ==
    /\ pc = "start"
    /\ \E ok \in BOOLEAN :
          /\ image_ok' = ok
          /\ pc' = IF ok THEN "barcode" ELSE "error"
    /\ UNCHANGED <<barcode_data, ocr, raw_text, parsed_data, pre_enhance, pre_web, calls,
                   response, net, results, idx, best_match, web_data>>
    /\ UNCHANGED <<cur, other, files>>
    /\ UNCHANGED store

(* main.py 309                                                             *)
ExtractBarcode ==
    /\ pc = "barcode"
    /\ \E decoded \in Decodes : barcode_data' = extract_barcode(decoded)
    /\ pc' = "ocr"
    /\ UNCHANGED <<image_ok, ocr, raw_text, parsed_data, pre_enhance, pre_web, calls,
                   response, net, results, idx, best_match, web_data>>
    /\ UNCHANGED <<cur, other, files>>
    /\ UNCHANGED store

(* main.py 313                                                             *)
ExtractText ==
    /\ pc = "ocr"
    /\ \E engine \in {"missing", "error", "ok"} :
          \E o1 \in OcrOutputs, o2 \in OcrOutputs, o3 \in OcrOutputs :
             /\ ocr' = engine
             /\ raw_text' = extract_text(engine, o1, o2, o3)
    /\ pc' = "parse"
    /\ UNCHANGED <<image_ok, barcode_data, parsed_data, pre_enhance, pre_web, calls,
                   response, net, results, idx, best_match, web_data>>
    /\ UNCHANGED <<cur, other, files>>
    /\ UNCHANGED store

(* main.py 317                                                             *)
Parse ==
    /\ pc = "parse"
    /\ parsed_data' = parse_filament_data(raw_text, barcode_data)
    /\ pre_enhance' = parsed_data'
    /\ pc' = "enhance"
    /\ UNCHANGED <<image_ok, barcode_data, ocr, raw_text, pre_web, calls, response, net,
                   results, idx, best_match, web_data>>
    /\ UNCHANGED <<cur, other, files>>
    /\ UNCHANGED store

(* main.py 322-325 with enhance_with_barcode_data (barcode_lookup.py       *)
(* 79-117): no barcode, or one the gate turns away, leaves the record as   *)
(* it is; otherwise the catalogue is asked once and its product merged.    *)
Enhance ==
    /\ pc = "enhance"
    /\ IF LookupGate(barcode_data)
       THEN \E resp \in ProductResponses :
               /\ response' = resp
               /\ calls' = Append(calls, "lookup_barcode_product")
               /\ parsed_data' =
                      MergeProduct(parsed_data,
                          lookup_barcode_product(barcode_data[1].data,
                                                 barcode_data[1].type, resp))
       ELSE UNCHANGED <<response, calls, parsed_data>>
    /\ pc' = "gate"
    /\ UNCHANGED <<image_ok, barcode_data, ocr, raw_text, pre_enhance, pre_web, net,
                   results, idx, best_match, web_data>>
    /\ UNCHANGED <<cur, other, files>>
    /\ UNCHANGED store

(* main.py 330-336, 345-350: the web lookup is called, or the scan returns *)
(* status "success" with the record and the raw text.                      *)
Gate ==
    /\ pc = "gate"
    /\ pre_web' = parsed_data
    /\ IF NeedsWeb(parsed_data)
       THEN /\ calls' = Append(calls, "lookup_filament_code")
            /\ pc' = "web_ua"
       ELSE /\ calls' = calls
            /\ pc' = "done"
    /\ UNCHANGED <<image_ok, barcode_data, ocr, raw_text, parsed_data, pre_enhance,
                   response, net, results, idx, best_match, web_data>>
    /\ UNCHANGED <<cur, other, files>>
    /\ UNCHANGED store

(* lookup.py 15-16: UserAgent() and ua.random run before the try block;    *)
(* when they raise, nothing in lookup_filament_code or process_scan        *)
(* catches it and the request ends with the exception.                     *)
WebUserAgent ==
    /\ pc = "web_ua"
    /\ \E ok \in BOOLEAN : pc' = IF ok THEN "web_get" ELSE "raised"
    /\ UNCHANGED <<image_ok, barcode_data, ocr, raw_text, parsed_data, pre_enhance,
                   pre_web, calls, response, net, results, idx, best_match, web_data>>
    /\ UNCHANGED <<cur, other, files>>
    /\ UNCHANGED store

(* WebGet with one more request after a request that raised.               *)
WebGetRetry(Responses) ==
    /\ pc = "web_get"
    /\ \E r \in Responses :
          /\ net' = r
          /\ calls' = Append(calls, "search")
          /\ IF r.kind = "ok" /\ ResultsOf(r) # <<>>
             THEN /\ results' = ResultsOf(r)
                  /\ pc' = "web_loop"
             ELSE /\ results' = <<>>
                  /\ pc' = IF r.kind # "ok" /\ net = NoSearch THEN "web_get"
                           ELSE "web_merge"
    /\ idx' = 0
    /\ best_match' = EmptyDict
    /\ web_data' = EmptyDict
    /\ UNCHANGED <<image_ok, barcode_data, ocr, raw_text, parsed_data, pre_enhance,
                   pre_web, response>>
    /\ UNCHANGED <<cur, other, files>>
    /\ UNCHANGED store

(* lookup.py 21-43: the request; an exception or no result returns {}.     *)
WebGet(Responses) ==
    /\ pc = "web_get"
    /\ \E r \in Responses :
          /\ net' = r
          /\ calls' = Append(calls, "search")
          /\ IF r.kind = "ok" /\ ResultsOf(r) # <<>>
             THEN /\ results' = ResultsOf(r)
                  /\ pc' = "web_loop"
             ELSE /\ results' = <<>>
                  /\ pc' = "web_merge"
    /\ idx' = 0
    /\ best_match' = EmptyDict
    /\ web_data' = EmptyDict
    /\ UNCHANGED <<image_ok, barcode_data, ocr, raw_text, parsed_data, pre_enhance,
                   pre_web, response>>
    /\ UNCHANGED <<cur, other, files>>
    /\ UNCHANGED store

(* lookup.py 46-62: one turn of the loop over the results; after the last  *)
(* title, or when EarlyStop holds, best_match is returned.                 *)
WebStep ==
    /\ pc = "web_loop"
    /\ idx' = idx + 1
    /\ best_match' = AccumulateFrom(best_match, TitleInfo[results[idx + 1]], 1)
    /\ IF EarlyStop(best_match') \/ idx' = Len(results)
       THEN /\ web_data' = best_match'
            /\ pc' = "web_merge"
       ELSE /\ web_data' = web_data
            /\ pc' = "web_loop"
    /\ UNCHANGED <<image_ok, barcode_data, ocr, raw_text, parsed_data, pre_enhance,
                   pre_web, calls, response, net, results>>
    /\ UNCHANGED <<cur, other, files>>
    /\ UNCHANGED store

(* main.py 340-350: the merge of the web data, then the return.            *)
WebMerge ==
    /\ pc = "web_merge"
    /\ parsed_data' = MergeWebFrom(parsed_data, web_data, 1)
    /\ pc' = "done"
    /\ UNCHANGED <<image_ok, barcode_data, ocr, raw_text, pre_enhance, pre_web, calls,
                   response, net, results, idx, best_match, web_data>>
    /\ UNCHANGED <<cur, other, files>>
    /\ UNCHANGED store

ScanResponses == SearchResponses(MaxScanLinks)

ScanSearch == WebGet(ScanResponses)

Next ==
    \/ Preprocess
    \/ ExtractBarcode
    \/ ExtractText
    \/ Parse
    \/ Enhance
    \/ Gate
    \/ WebUserAgent
    \/ ScanSearch
    \/ WebStep
    \/ WebMerge

Spec == Init /\ [][Next]_vars

----------------------------------------------------------------------------
(* lookup_filament_code on its own: the scan of a label without a retail   *)
(* barcode whose text gave a filament code and left a key field empty has  *)
(* just called the web lookup; the search may answer with up to MaxLinks   *)
(* result links.                                                           *)

LookupInit ==
    \E o \in OcrOutputs :
       LET text == extract_text("ok", o, <<>>, <<>>)
           d == parse_filament_data(text, None)
       IN  /\ NeedsWeb(d)
           /\ pc = "web_ua"
           /\ Alone
           /\ image_ok = TRUE
           /\ barcode_data = None
           /\ ocr = "ok"
           /\ raw_text = text
           /\ parsed_data = d
           /\ pre_enhance = d
           /\ pre_web = d
           /\ calls = <<"lookup_filament_code">>
           /\ response = NoProduct
           /\ net = NoSearch
           /\ results = <<>>
           /\ idx = 0
           /\ best_match = EmptyDict
           /\ web_data = EmptyDict

LookupResponses == SearchResponses(MaxLinks)

LookupSearch == WebGet(LookupResponses)

LookupNext ==
    \/ WebUserAgent
    \/ LookupSearch
    \/ WebStep
    \/ WebMerge

SpecLookup == LookupInit /\ [][LookupNext]_vars

-----------------------------------------------------------------------------
(* The two text matchers on their own: parse_filament_data (without a       *)
(* barcode) and parse_string_info are applied, one after the other, to      *)
(* every text of up to MaxText tokens of MatchVocab.                        *)

MaxText == 3

MatchVocab ==
    { "1kg", "250g", "5g", "1.0kg", "13612", "Pine", "Green", "Black", "Bambu", "Lab",
      "spool", NL }

MatchTexts == SeqsUpTo(MatchVocab, MaxText)

MatchInit ==
    /\ pc = "match"
    /\ Alone
    /\ raw_text \in MatchTexts
    /\ image_ok = TRUE
    /\ barcode_data = None
    /\ ocr = "ok"
    /\ parsed_data = EmptyDict
    /\ pre_enhance = EmptyDict
    /\ pre_web = EmptyDict
    /\ calls = <<>>
    /\ response = NoProduct
    /\ net = NoSearch
    /\ results = <<>>
    /\ idx = 0
    /\ best_match = EmptyDict
    /\ web_data = EmptyDict

(* ocr.py 85-192 on the text.                                              *)
MatchOcr ==
    /\ pc = "match"
    /\ parsed_data' = parse_filament_data(raw_text, None)
    /\ pc' = "match_web"
    /\ UNCHANGED <<image_ok, barcode_data, ocr, raw_text, pre_enhance, pre_web, calls,
                   response, net, results, idx, best_match, web_data>>
    /\ UNCHANGED <<cur, other, files>>
    /\ UNCHANGED store

(* lookup.py 64-121 on the same text.                                      *)
MatchWeb ==
    /\ pc = "match_web"
    /\ best_match' = parse_string_info(raw_text)
    /\ pc' = "matched"
    /\ UNCHANGED <<image_ok, barcode_data, ocr, raw_text, parsed_data, pre_enhance,
                   pre_web, calls, response, net, results, idx, web_data>>
    /\ UNCHANGED <<cur, other, files>>
    /\ UNCHANGED store

MatchNext ==
    \/ MatchOcr
    \/ MatchWeb

SpecMatch == MatchInit /\ [][MatchNext]_vars
-----------------------------------------------------------------------------
(* Two scan requests served by one uvicorn process (main.py 369-372).       *)
(* process_scan is a coroutine (main.py 294, async def) and is run by the   *)
(* event loop; the loop runs another coroutine only when the running one    *)
(* awaits or has returned.  The variables of the request being run are the  *)
(* scan's variables, those of the other request are kept in `other`.        *)

(* The places of process_scan at which it awaits: main.py 294-355 holds no  *)
(* await, the OCR and both requests are plain blocking calls.               *)
AwaitPoints == {}

(* The handler of a request has not started, or has ended.                  *)
Outside(p) == p \in {"new", "done", "error", "raised"}

(* The variables of the running request, as a record.                       *)
Saved ==
    [pc |-> pc, image_ok |-> image_ok, barcode_data |-> barcode_data, ocr |-> ocr,
     raw_text |-> raw_text, parsed_data |-> parsed_data, pre_enhance |-> pre_enhance,
     pre_web |-> pre_web, calls |-> calls, response |-> response, net |-> net,
     results |-> results, idx |-> idx, best_match |-> best_match, web_data |-> web_data]

(* A request that was received and whose handler has not started.           *)
NewRequest ==
    [pc |-> "new", image_ok |-> FALSE, barcode_data |-> None, ocr |-> "none",
     raw_text |-> <<>>, parsed_data |-> EmptyDict, pre_enhance |-> EmptyDict,
     pre_web |-> EmptyDict, calls |-> <<>>, response |-> NoProduct, net |-> NoSearch,
     results |-> <<>>, idx |-> 0, best_match |-> EmptyDict, web_data |-> EmptyDict]

TwoInit ==
    /\ cur = 1
    /\ other = NewRequest
    /\ files = [p \in Paths |-> 0]
    /\ NoStore
    /\ pc = NewRequest.pc
    /\ image_ok = NewRequest.image_ok
    /\ barcode_data = NewRequest.barcode_data
    /\ ocr = NewRequest.ocr
    /\ raw_text = NewRequest.raw_text
    /\ parsed_data = NewRequest.parsed_data
    /\ pre_enhance = NewRequest.pre_enhance
    /\ pre_web = NewRequest.pre_web
    /\ calls = NewRequest.calls
    /\ response = NewRequest.response
    /\ net = NewRequest.net
    /\ results = NewRequest.results
    /\ idx = NewRequest.idx
    /\ best_match = NewRequest.best_match
    /\ web_data = NewRequest.web_data

(* The event loop turns to the other request.                               *)
Switch ==
    /\ Outside(pc) \/ pc \in AwaitPoints
    /\ cur' = CHOOSE r \in Requests : r # cur
    /\ other' = Saved
    /\ pc' = other.pc
    /\ image_ok' = other.image_ok
    /\ barcode_data' = other.barcode_data
    /\ ocr' = other.ocr
    /\ raw_text' = other.raw_text
    /\ parsed_data' = other.parsed_data
    /\ pre_enhance' = other.pre_enhance
    /\ pre_web' = other.pre_web
    /\ calls' = other.calls
    /\ response' = other.response
    /\ net' = other.net
    /\ results' = other.results
    /\ idx' = other.idx
    /\ best_match' = other.best_match
    /\ web_data' = other.web_data
    /\ files' = files
    /\ UNCHANGED store

(* main.py 295-299: the handler starts and saves the image under its path.  *)
Save ==
    /\ pc = "new"
    /\ pc' = "start"
    /\ files' = [files EXCEPT ![FilePath(cur)] = cur]
    /\ UNCHANGED <<image_ok, barcode_data, ocr, raw_text, parsed_data, pre_enhance,
                   pre_web, calls, response, net, results, idx, best_match, web_data,
                   cur, other>>
    /\ UNCHANGED store

(* The text extract_text returns when one variant of the image reads        *)
(* "eSun PLA+ Black 1.75mm 1kg 190-220°C" and the other two read nothing.   *)
ScenarioText ==
    <<"eSun", "PLA+", "Black", "1.75mm", "1kg", "190-220°C", NL, NL>>

(* The inputs of the two requests: a retail barcode or none, three texts,   *)
(* a catalogue that times out or knows the product, a search that times     *)
(* out or gives one result.                                                 *)
TwoBarcodes == {None, Some([data |-> "012345678905", type |-> "EAN13"])}

TwoTexts == {EngineMissing, <<"Filament", "Code", "13612", NL, NL>>, ScenarioText}

TwoProducts ==
    {r \in ProductResponses : r.kind = "Timeout" \/ (r.status = HttpOk /\ r.items # <<>>)}

TwoSearches == {r \in ScanResponses : r.kind = "Timeout" \/ Len(r.links) = 1}

TwoExtractBarcode == ExtractBarcode /\ barcode_data' \in TwoBarcodes

TwoExtractText == ExtractText /\ raw_text' \in TwoTexts

TwoEnhance == Enhance /\ response' \in TwoProducts \cup {NoProduct}

TwoSearch == ScanSearch /\ net' \in TwoSearches

TwoNext ==
    \/ Switch
    \/ Save
    \/ Preprocess
    \/ TwoExtractBarcode
    \/ TwoExtractText
    \/ Parse
    \/ TwoEnhance
    \/ Gate
    \/ WebUserAgent
    \/ TwoSearch
    \/ WebStep
    \/ WebMerge

SpecTwo == TwoInit /\ [][TwoNext]_vars
-----------------------------------------------------------------------------
(* process_scan and lookup_filament_code as functions of what the request   *)
(* received: the decoded barcode, the OCR text, the catalogue's answer and  *)
(* the search engine's answer.                                              *)

RECURSIVE LoopFrom(_, _, _)
(* lookup.py 46-60: the loop over the kept titles from the i-th on, with    *)
(* the early stop.                                                          *)
LoopFrom(bm, titles, i) ==
    IF i > Len(titles) THEN bm
    ELSE LET b == AccumulateFrom(bm, TitleInfo[titles[i]], 1)
         IN  IF EarlyStop(b) THEN b ELSE LoopFrom(b, titles, i + 1)

(* lookup.py 21-62, once the User-Agent was built.                          *)
lookup_filament_code(r) ==
    IF r.kind = "ok" /\ ResultsOf(r) # <<>>
    THEN LoopFrom(EmptyDict, ResultsOf(r), 1) ELSE EmptyDict

(* barcode_lookup.py 79-117                                                 *)
enhance_with_barcode_data(d, barcode, resp) ==
    IF LookupGate(barcode)
    THEN MergeProduct(d, lookup_barcode_product(barcode[1].data, barcode[1].type, resp))
    ELSE d

(* main.py 317-350: the record of a scan that returns status "success".     *)
process_scan(barcode, text, resp, srch) ==
    LET d == enhance_with_barcode_data(parse_filament_data(text, barcode), barcode, resp)
    IN  IF NeedsWeb(d) THEN MergeWebFrom(d, lookup_filament_code(srch), 1) ELSE d
-----------------------------------------------------------------------------
(* The inventory calls, made by the users in any order on a table of three  *)
(* rows.                                                                    *)

(* The brand column of the three rows.                                      *)
BrandOf == <<"", "eSun", "Bambu Lab">>

(* The tables at the start: row 1 is user A's, row 3 holds one spool.       *)
Tables ==
    {t \in [ItemIds -> [user_id : Users, quantity : 1..MaxQty, brand : Brands]] :
        /\ \A i \in ItemIds : t[i].brand = BrandOf[i]
        /\ t[1].user_id = "A"
        /\ t[3].quantity = 1}

(* request["spool_ids"]                                                     *)
IdLists == SeqsUpTo(ItemIds, Cardinality(ItemIds))

InvInit ==
    /\ inventory \in Tables
    /\ initial = inventory
    /\ spool_history = EmptyBag
    /\ reply = NoReply
    /\ cur = 1
    /\ other = NoRequest
    /\ files = [p \in Paths |-> 0]
    /\ pc = "none"
    /\ image_ok = FALSE
    /\ barcode_data = None
    /\ ocr = "none"
    /\ raw_text = <<>>
    /\ parsed_data = EmptyDict
    /\ pre_enhance = EmptyDict
    /\ pre_web = EmptyDict
    /\ calls = <<>>
    /\ response = NoProduct
    /\ net = NoSearch
    /\ results = <<>>
    /\ idx = 0
    /\ best_match = EmptyDict
    /\ web_data = EmptyDict

(* main.py 131-140                                                          *)
delete_item(user, item_id) ==
    /\ IF item_id \notin Owned(user)
       THEN /\ reply' = NotFound
            /\ inventory' = inventory
       ELSE /\ inventory' = Without({item_id})
            /\ reply' = Ok
    /\ UNCHANGED <<spool_history, initial, scan, cur, other, files>>

(* main.py 142-147                                                          *)
delete_all_inventory(user) ==
    /\ inventory' = Without(Owned(user))
    /\ reply' = Ok
    /\ UNCHANGED <<spool_history, initial, scan, cur, other, files>>

(* The ids of a list.                                                       *)
Range(s) == {s[i] : i \in DOMAIN s}

(* The orders in which a query without ORDER BY can give the rows of ids.   *)
Orders(ids) ==
    {s \in [1..Cardinality(ids) -> ids] : \A i, j \in DOMAIN s : i # j => s[i] # s[j]}

RECURSIVE SumQuantity(_, _)
(* main.py 179: sum(s.quantity for s in spools), from the i-th row on.      *)
SumQuantity(spools, i) ==
    IF i > Len(spools) THEN 0
    ELSE inventory[spools[i]].quantity + SumQuantity(spools, i + 1)

RECURSIVE MergeBrand(_, _, _)
(* main.py 183-199: if not primary_spool.brand and spool.brand: ..., for    *)
(* the rows after the first, from the i-th on.                              *)
MergeBrand(brand, spools, i) ==
    IF i > Len(spools) THEN brand
    ELSE MergeBrand(IF brand = "" /\ inventory[spools[i]].brand # ""
                    THEN inventory[spools[i]].brand ELSE brand,
                    spools, i + 1)

(* main.py 149-212                                                          *)
combine_spools(user, spool_ids) ==
    /\ IF Len(spool_ids) < 2
       THEN /\ reply' = BadRequest
            /\ inventory' = inventory
       ELSE IF Cardinality(Owned(user) \cap Range(spool_ids)) # Len(spool_ids)
       THEN /\ reply' = NotFound
            /\ inventory' = inventory
       ELSE \E spools \in Orders(Owned(user) \cap Range(spool_ids)) :
               LET primary_spool == spools[1]
                   total_quantity == SumQuantity(spools, 1)
                   merged == [inventory[primary_spool] EXCEPT
                                 !.quantity = total_quantity,
                                 !.brand = MergeBrand(@, spools, 2)]
               IN  /\ inventory' =
                          [i \in (DOMAIN inventory) \ (Range(spools) \ {primary_spool}) |->
                              IF i = primary_spool THEN merged ELSE inventory[i]]
                   /\ reply' = [status |-> 200, primary_spool_id |-> primary_spool,
                                total_quantity |-> total_quantity]
    /\ UNCHANGED <<spool_history, initial, scan, cur, other, files>>

(* consume_spool with `item.quantity >= 1` as the test that keeps the row.  *)
consume_spool_keep(user, item_id) ==
    /\ IF item_id \notin Owned(user)
       THEN /\ reply' = NotFound
            /\ UNCHANGED <<inventory, spool_history>>
       ELSE /\ spool_history' =
                   spool_history (+) SetToBag({[user_id |-> user,
                                                brand |-> inventory[item_id].brand,
                                                item_id |-> item_id]})
            /\ IF inventory[item_id].quantity >= 1
               THEN /\ inventory' = [inventory EXCEPT ![item_id].quantity = @ - 1]
                    /\ reply' = [status |-> 200,
                                 remaining_quantity |-> inventory[item_id].quantity - 1]
               ELSE /\ inventory' = Without({item_id})
                    /\ reply' = [status |-> 200, remaining_quantity |-> 0]
    /\ UNCHANGED <<initial, scan, cur, other, files>>

(* main.py 214-261                                                          *)
consume_spool(user, item_id) ==
    /\ IF item_id \notin Owned(user)
       THEN /\ reply' = NotFound
            /\ UNCHANGED <<inventory, spool_history>>
       ELSE /\ spool_history' =
                   spool_history (+) SetToBag({[user_id |-> user,
                                                brand |-> inventory[item_id].brand,
                                                item_id |-> item_id]})
            /\ IF inventory[item_id].quantity > 1
               THEN /\ inventory' = [inventory EXCEPT ![item_id].quantity = @ - 1]
                    /\ reply' = [status |-> 200,
                                 remaining_quantity |-> inventory[item_id].quantity - 1]
               ELSE /\ inventory' = Without({item_id})
                    /\ reply' = [status |-> 200, remaining_quantity |-> 0]
    /\ UNCHANGED <<initial, scan, cur, other, files>>

InvNext ==
    \/ \E user \in Users, item_id \in ItemIds : delete_item(user, item_id)
    \/ \E user \in Users : delete_all_inventory(user)
    \/ \E user \in Users, spool_ids \in IdLists : combine_spools(user, spool_ids)
    \/ \E user \in Users, item_id \in ItemIds : consume_spool(user, item_id)

SpecInv == InvInit /\ [][InvNext]_vars

(* consume_spool alone, on the same tables.                                 *)
ConsumeNext == \E user \in Users, item_id \in ItemIds : consume_spool(user, item_id)

SpecConsume == InvInit /\ [][ConsumeNext]_vars
----------------------------------------------------------------------------
(* The claims.                                                             *)

InCalls(name) == \E i \in DOMAIN calls : calls[i] = name

(* The scan is past parse_filament_data, past enhance_with_barcode_data,   *)
(* past the web-fallback test.                                             *)
Parsed == pc \notin {"start", "error", "barcode", "ocr", "parse"}

Enhanced == Parsed /\ pc # "enhance"

Gated == Enhanced /\ pc # "gate"

(* The record as enhance_with_barcode_data left it.                        *)
EnhancedRecord == IF pc = "gate" THEN parsed_data ELSE pre_web

(* Every populated (truthy) field of d is in e with the same value.        *)
Keeps(d, e) == \A k \in DOMAIN d : Truthy(k, d[k]) => (k \in DOMAIN e /\ e[k] = d[k])

(* C1: no merge step replaces a populated field.  In every step of a scan,  *)
(* the barcode-product merge and the web merge among them, each field of    *)
(* the record that is populated before the step has the same value after    *)
(* it, and in every turn of lookup_filament_code's loop so has each field   *)
(* of best_match; so a step writes only fields that were empty.  Populated  *)
(* is read as the code tests it: not None, not 0 and not the empty string.  *)
C1_AdditiveMerge ==
    [][Keeps(parsed_data, parsed_data') /\ Keeps(best_match, best_match')]_vars

(* C1's case: the web data offered another brand than the one the record   *)
(* had, the record kept its own, and an empty field was filled.            *)
C1_Witness ==
    /\ pc = "done"
    /\ InCalls("search")
    /\ Truthy("brand", Get(pre_web, "brand"))
    /\ Truthy("brand", Get(web_data, "brand"))
    /\ Get(web_data, "brand") # Get(pre_web, "brand")
    /\ Get(parsed_data, "brand") = Get(pre_web, "brand")
    /\ ~Truthy("color_name", Get(pre_web, "color_name"))
    /\ Truthy("color_name", Get(parsed_data, "color_name"))

(* C2: barcode-derived fields take precedence over the OCR text.  Once the  *)
(* text is parsed, the filament code of a scan with a retail-numeric        *)
(* barcode is the barcode's payload, and the brand of a scan whose QR       *)
(* payload holds the vendor marker is "Bambu Lab".                          *)
C2_BarcodePrecedence ==
    (Parsed /\ barcode_data # None) =>
        /\ barcode_data[1].type \in {"EAN13", "UPCA", "EAN8", "UPCE"}
              => pre_enhance.filament_code = Some(barcode_data[1].data)
        /\ (barcode_data[1].type = "QRCODE" /\ HasBambulab(barcode_data[1].data))
              => pre_enhance.brand = Some("Bambu Lab")

Empty(d, k) == Get(d, k) \in {None, Some("")}

(* C3: the web lookup is called if and only if the record, as it stands     *)
(* after parsing and barcode enrichment, has a filament code and lacks one  *)
(* of brand, material and color_name.                                       *)
C3_WebGating ==
    Gated =>
        (InCalls("lookup_filament_code")
            <=> /\ ~Empty(pre_web, "filament_code")
                /\ \E k \in {"brand", "material", "color_name"} : Empty(pre_web, k))

(* C3's case: a record with a filament code, a brand and a material that   *)
(* lacks only the colour started the lookup, and one with all four did not. *)
C3_Witness ==
    /\ Gated
    /\ ~Empty(pre_web, "filament_code")
    /\ ~Empty(pre_web, "brand")
    /\ ~Empty(pre_web, "material")
    /\ Empty(pre_web, "color_name")
    /\ InCalls("lookup_filament_code")

(* C4: the product catalogue is asked only for a decoded barcode with a     *)
(* non-empty payload and one of the symbologies EAN13, UPCA, EAN8, UPCE;    *)
(* with any other symbology it is not asked and the record is returned as   *)
(* it was.                                                                  *)
C4_ProductGating ==
    Enhanced =>
        /\ InCalls("lookup_barcode_product") =>
              /\ barcode_data # None
              /\ barcode_data[1].data # ""
              /\ barcode_data[1].type \in {"EAN13", "UPCA", "EAN8", "UPCE"}
        /\ (barcode_data # None
               /\ barcode_data[1].type \notin {"EAN13", "UPCA", "EAN8", "UPCE"})
              => (~InCalls("lookup_barcode_product") /\ EnhancedRecord = pre_enhance)

(* C4's case: a QR code with a payload went through the enrichment.        *)
C4_Witness ==
    /\ pc = "gate"
    /\ barcode_data # None
    /\ barcode_data[1].type = "QRCODE"
    /\ barcode_data[1].data # ""

(* C5: image preprocessing is the single fatal condition.  The scan ends    *)
(* with status "error" if and only if preprocess_image failed, and no       *)
(* failure of another stage ends it with an exception.                      *)
C5_SingleFatal ==
    /\ pc = "error" => ~image_ok
    /\ pc \notin {"start", "error"} => image_ok
    /\ pc # "raised"

(* C6: engine absence.  When the OCR engine is unavailable, extract_text    *)
(* returns the sentinel text; the record parsed from it has no material,    *)
(* colour, weight or nozzle temperature, the default diameter, and no       *)
(* filament code or brand but the barcode's; and a scan without a barcode   *)
(* returns the sentinel as its text with that empty record.                 *)
C6_EngineAbsence ==
    (Parsed /\ ocr = "missing") =>
        /\ raw_text = EngineMissing
        /\ pre_enhance.raw_text = Some(EngineMissing)
        /\ \A k \in {"material", "color_name", "weight_g", "temp_nozzle"} :
              pre_enhance[k] = None
        /\ "color_hex" \notin DOMAIN pre_enhance
        /\ pre_enhance.diameter = Some(175)
        /\ pre_enhance.filament_code =
              IF barcode_data # None
                 /\ barcode_data[1].type \in {"EAN13", "UPCA", "EAN8", "UPCE"}
              THEN Some(barcode_data[1].data) ELSE None
        /\ pre_enhance.brand =
              IF barcode_data # None /\ barcode_data[1].type = "QRCODE"
                 /\ HasBambulab(barcode_data[1].data)
              THEN Some("Bambu Lab") ELSE None
        /\ (Gated /\ barcode_data = None) =>
              /\ pc = "done"
              /\ parsed_data = pre_enhance
              /\ \A k \in {"brand", "material", "color_name", "weight_g", "temp_nozzle",
                           "filament_code"} : parsed_data[k] = None

(* C6's case: a scan without a barcode returned with the engine missing.   *)
C6_Witness == pc = "done" /\ ocr = "missing" /\ barcode_data = None

FailedProduct(r) == r.kind # "ok" \/ r.status # 200 \/ r.items = <<>>

(* C7: the product lookup degrades silently.  On an exception, a timeout,   *)
(* a status other than 200 or an empty item list, lookup_barcode_product    *)
(* returns None and enhance_with_barcode_data returns the record with the   *)
(* same keys and values.                                                    *)
C7_ProductLookupSilent ==
    (Enhanced /\ InCalls("lookup_barcode_product") /\ FailedProduct(response)) =>
        /\ lookup_barcode_product(barcode_data[1].data, barcode_data[1].type, response)
              = None
        /\ EnhancedRecord = pre_enhance

(* C7's case: the catalogue answered with a status other than 200 and a    *)
(* body that holds an item.                                                *)
C7_Witness ==
    /\ pc = "gate"
    /\ InCalls("lookup_barcode_product")
    /\ response.kind = "ok"
    /\ response.status # 200
    /\ response.items # <<>>

(* C8: a failing web lookup never raises.  Whatever fails in                *)
(* lookup_filament_code, the browser-identity generation included, the      *)
(* scan does not end with an exception, the lookup returns an empty record  *)
(* and the scan's record is left as it was.                                 *)
C8_WebFailureSilent ==
    /\ pc # "raised"
    /\ (pc = "done" /\ InCalls("search")
           /\ (net.kind # "ok" \/ net.status # 200 \/ net.links = <<>>))
          => (web_data = EmptyDict /\ parsed_data = pre_web)


(* The value parse_string_info gives for key k on the i-th kept title.      *)
Yield(i, k) == Get(TitleInfo[results[i]], k)

(* The examined titles, out of the first n, that give key k a value.        *)
Yielding(n, k) == {i \in 1..n : Truthy(k, Yield(i, k))}

InfoKeySet == {InfoKeys[i] : i \in DOMAIN InfoKeys}

(* C9: lookup_filament_code keeps the first TopN result titles, in page     *)
(* order, and after each examined title every field of best_match is the    *)
(* value of the earliest examined title that gives that field a non-empty   *)
(* value (and is absent when no examined title gives one), so a later title *)
(* never replaces an earlier title's value; the returned record is          *)
(* best_match.                                                              *)
C9_FirstMatchWins ==
    (pc \in {"web_loop", "web_merge", "done"} /\ results # <<>>) =>
        /\ results = Top(net.links)
        /\ Len(results) <= TopN
        /\ idx <= Len(results)
        /\ DOMAIN best_match \subseteq InfoKeySet
        /\ \A k \in InfoKeySet :
              IF Yielding(idx, k) = {}
              THEN k \notin DOMAIN best_match
              ELSE Get(best_match, k) = Yield(Least(Yielding(idx, k)), k)
        /\ (pc # "web_loop") => web_data = best_match

(* More than TopN links came back, and the returned record holds a field    *)
(* for which two examined titles gave different values.                     *)
C9_Witness ==
    /\ pc = "done"
    /\ Len(net.links) > TopN
    /\ \E k \in InfoKeySet : \E i, j \in 1..idx :
          /\ i < j
          /\ Truthy(k, Yield(i, k))
          /\ Truthy(k, Yield(j, k))
          /\ Yield(i, k) # Yield(j, k)
          /\ Get(web_data, k) = Yield(i, k)

RECURSIVE AccumulateAll(_, _, _)
(* The loop of lookup.py 46-56 over every kept title, from the i-th on,     *)
(* without the test of line 59.                                             *)
AccumulateAll(bm, titles, i) ==
    IF i > Len(titles) THEN bm
    ELSE AccumulateAll(AccumulateFrom(bm, TitleInfo[titles[i]], 1), titles, i + 1)

(* C10: the early stop is only an optimization.  The record returned by     *)
(* lookup_filament_code equals the record that accumulating over all of     *)
(* the kept titles would give.                                              *)
C10_EarlyStopEquivalent ==
    (pc \in {"web_merge", "done"} /\ results # <<>>) =>
        web_data = AccumulateAll(EmptyDict, results, 1)

(* C11: the end-to-end scenario.  A scan with no barcode whose OCR text is  *)
(* "eSun PLA+ Black 1.75mm 1kg 190-220°C" returns brand "eSun", material    *)
(* "PLA+", colour "Black" / "#000000", diameter 1.75, weight 1000 g and     *)
(* nozzle temperature "190-220", and calls no web lookup.                   *)
C11_Scenario ==
    (pc = "done" /\ barcode_data = None /\ raw_text = ScenarioText) =>
        /\ Get(parsed_data, "brand") = Some("eSun")
        /\ Get(parsed_data, "material") = Some("PLA+")
        /\ Get(parsed_data, "color_name") = Some("Black")
        /\ Get(parsed_data, "color_hex") = Some("#000000")
        /\ Get(parsed_data, "diameter") = Some(175)
        /\ Get(parsed_data, "weight_g") = Some(1000)
        /\ Get(parsed_data, "temp_nozzle") = Some("190-220")
        /\ ~InCalls("lookup_filament_code")

(* The brand list's first hit on the text is "Bambu" (or, in the web        *)
(* list, "Bambu Lab").                                                      *)
BambuMatched(brands, text) ==
    /\ FirstBrand(brands, text) # None
    /\ FirstBrand(brands, text)[1] \in {"Bambu", "Bambu Lab"}

(* C12: brand alias normalization.  Whenever the brand matched in a text    *)
(* is "Bambu", the record has brand "Bambu Lab": in the record that         *)
(* parse_filament_data gives for the OCR text, and in the record that       *)
(* parse_string_info gives for each result title.                           *)
C12_BrandAlias ==
    /\ (Parsed /\ BambuMatched(brands_ocr, raw_text)) =>
           Get(pre_enhance, "brand") = Some("Bambu Lab")
    /\ \A i \in DOMAIN results :
           BambuMatched(brands_web, results[i]) =>
               Get(TitleInfo[results[i]], "brand") = Some("Bambu Lab")

(* The weight the claim states for a match of N and a unit.                 *)
StatedWeight(m) == IF m[2] = "kg" THEN m[1] * 1000 ELSE m[1]

(* C13: weight unit normalization.  For every text whose first weight       *)
(* match is N followed by g or kg, both matchers set weight_g to N * 1000   *)
(* when the unit is kg and to N when the unit is g.                         *)
C13_WeightUnit ==
    (pc = "matched" /\ WeightMatch(raw_text) # <<>>) =>
        /\ Get(parsed_data, "weight_g") = Some(StatedWeight(WeightMatch(raw_text)))
        /\ Get(best_match, "weight_g") = Some(StatedWeight(WeightMatch(raw_text)))

(* The dictionary names that whole-word match the text.                     *)
MatchingNames(text) ==
    {ColorNames[i] : i \in {j \in DOMAIN ColorNames : WordMatch(ColorNames[j], text)}}

(* The colour of record d is a longest dictionary name matching the text,   *)
(* and is absent when none matches.                                         *)
LongestColor(d, text) ==
    IF MatchingNames(text) = {} THEN Get(d, "color_name") = None
    ELSE /\ Get(d, "color_name") # None
         /\ Get(d, "color_name")[1] \in MatchingNames(text)
         /\ \A n \in MatchingNames(text) : Len(n) <= Len(Get(d, "color_name")[1])

ColorPaired(d) ==
    /\ Truthy("color_name", Get(d, "color_name")) <=> Truthy("color_hex", Get(d, "color_hex"))
    /\ Truthy("color_name", Get(d, "color_name")) =>
           /\ \E i \in DOMAIN colors : colors[i][1] = Get(d, "color_name")[1]
           /\ Get(d, "color_hex") = Some(ColorHex(Get(d, "color_name")[1]))

(* C15: colour pairing.  In the record a scan returns, whatever the OCR     *)
(* parse, the barcode enrichment and the web merge contributed, color_hex   *)
(* is populated if and only if color_name is, and it is the dictionary's    *)
(* hex value for that name; the same holds for the record the web lookup    *)
(* returned.                                                                *)
C15_ColorPairing ==
    (pc = "done") => (ColorPaired(parsed_data) /\ ColorPaired(web_data))

(* The OCR record had a colour, the web lookup returned another one, and    *)
(* the scan returned after the merge.                                       *)
C15_Witness ==
    /\ pc = "done"
    /\ InCalls("search")
    /\ Truthy("color_name", Get(pre_web, "color_name"))
    /\ Truthy("color_name", Get(web_data, "color_name"))
    /\ Get(web_data, "color_name") # Get(pre_web, "color_name")

(* The OCR record had no colour and the scan returned the web lookup's.     *)
C15_WitnessFilled ==
    /\ pc = "done"
    /\ ~Truthy("color_name", Get(pre_web, "color_name"))
    /\ Truthy("color_name", Get(parsed_data, "color_name"))

(* How many times the call log holds name.                                  *)
Count(name) == Cardinality({i \in DOMAIN calls : calls[i] = name})

(* The catalogue's answer that holds no item, and the search page that      *)
(* holds no result link.                                                    *)
NoItems == [kind |-> "ok", status |-> 200, items |-> <<>>]

NoLinks == [kind |-> "ok", status |-> 200, links |-> <<>>]

(* C16: no retries.  Within one scan the product-catalogue request is made  *)
(* at most once and the web-search request at most once, the catalogue's    *)
(* before the search; and after a timeout of either the record is exactly   *)
(* the record that source gives when it returns no data.                    *)
C16_NoRetries ==
    /\ Count("lookup_barcode_product") <= 1
    /\ Count("search") <= 1
    /\ \A i, j \in DOMAIN calls :
          (calls[i] = "lookup_barcode_product" /\ calls[j] = "search") => i < j
    /\ (Enhanced /\ InCalls("lookup_barcode_product") /\ response.kind = "Timeout") =>
          EnhancedRecord =
              MergeProduct(pre_enhance,
                  lookup_barcode_product(barcode_data[1].data, barcode_data[1].type,
                                         NoItems))
    /\ (pc = "done" /\ InCalls("search") /\ net.kind = "Timeout") =>
          (web_data = EmptyDict /\ parsed_data = pre_web)
    /\ (pc = "done" /\ InCalls("search") /\ net = NoLinks) =>
          (web_data = EmptyDict /\ parsed_data = pre_web)

(* A scan in which both requests were made and both timed out.              *)
C16_Witness ==
    /\ pc = "done"
    /\ InCalls("lookup_barcode_product")
    /\ InCalls("search")
    /\ response.kind = "Timeout"
    /\ net.kind = "Timeout"

(* The running request is in the OCR call or in one of the two network      *)
(* calls.                                                                   *)
Blocked ==
    \/ pc = "ocr"
    \/ pc = "enhance" /\ LookupGate(barcode_data)
    \/ pc = "web_get"

(* C17: non-stalling scans.  While one scan request is blocked in OCR or    *)
(* in a network call, another submitted request that has not finished can   *)
(* make progress: the server can turn to it.                                *)
C17_NonStalling ==
    (Blocked /\ other.pc \notin {"done", "error", "raised"}) => ENABLED Switch

(* The request that is not running.                                         *)
OtherId == CHOOSE r \in Requests : r # cur

(* Request s, when it has returned, returned what it returns alone: status  *)
(* "error" for an unreadable image, and otherwise the record process_scan   *)
(* gives for its own barcode, text and external answers, with its own text. *)
ReturnsAsAlone(s) ==
    /\ s.pc = "error" => ~s.image_ok
    /\ s.pc = "done" =>
          /\ s.image_ok
          /\ s.parsed_data = process_scan(s.barcode_data, s.raw_text, s.response, s.net)
          /\ Get(s.parsed_data, "raw_text") = Some(s.raw_text)

(* C18: request independence.  In every interleaving of two scan requests   *)
(* each request returns the record and raw text it returns when run alone   *)
(* with the same image and external answers; a step of one request changes  *)
(* nothing of the other; and the image file a request reads is the one it   *)
(* wrote.                                                                   *)
C18_Independence ==
    /\ [](ReturnsAsAlone(Saved) /\ ReturnsAsAlone(other))
    /\ []((pc = "start" => files[FilePath(cur)] = cur)
             /\ (other.pc = "start" => files[FilePath(OtherId)] = OtherId))
    /\ [][cur' = cur => other' = other]_vars

(* Both requests have returned, the second after the first, each with a     *)
(* web lookup, and their records differ.                                    *)
C18_Witness ==
    /\ pc = "done"
    /\ other.pc = "done"
    /\ InCalls("search")
    /\ parsed_data # other.parsed_data
    /\ Get(parsed_data, "brand") # Get(other.parsed_data, "brand")

RECURSIVE TotalOf(_, _)
(* The sum of the quantities of the rows of table t with an id in ids.      *)
TotalOf(t, ids) ==
    IF ids \cap DOMAIN t = {} THEN 0
    ELSE LET i == CHOOSE j \in ids \cap DOMAIN t : TRUE
         IN  t[i].quantity + TotalOf(t, ids \ {i})

(* The ids of the rows of table t that user owns.                           *)
OwnedIn(t, user) == {i \in DOMAIN t : t[i].user_id = user}

(* What the claim states of a combine_spools(user, spool_ids) call that     *)
(* answered 200, without the choice of the primary.                         *)
CombinedInto(user, spool_ids, primary) ==
    /\ primary \in DOMAIN inventory'
    /\ inventory'[primary].quantity = TotalOf(inventory, Range(spool_ids))
    /\ \A i \in Range(spool_ids) \ {primary} : i \notin DOMAIN inventory'
    /\ \A i \in (DOMAIN inventory) \ Range(spool_ids) :
          i \in DOMAIN inventory' /\ inventory'[i] = inventory[i]
    /\ TotalOf(inventory', OwnedIn(inventory', user))
          = TotalOf(inventory, OwnedIn(inventory, user))

(* What the claim states of a call with a list that is too short or names   *)
(* a row the caller does not own.                                           *)
CombineRejected(user, spool_ids) ==
    (Len(spool_ids) < 2 \/ ~(Range(spool_ids) \subseteq Owned(user))) =>
        /\ reply'.status \in {400, 404}
        /\ inventory' = inventory

(* C19: combine spools.  A successful combine of at least 2 ids owned by    *)
(* the caller keeps the first spool of the list as the primary, gives it    *)
(* the sum of the quantities of the listed spools and deletes the other     *)
(* listed spools, so the caller's total quantity is unchanged; a list of    *)
(* fewer than 2 ids or with an id the caller does not own is rejected with  *)
(* the inventory unchanged.                                                 *)
C19_Combine ==
    [][\A user \in Users, spool_ids \in IdLists :
          combine_spools(user, spool_ids) =>
              /\ CombineRejected(user, spool_ids)
              /\ reply'.status = 200 =>
                    /\ reply'.primary_spool_id = spool_ids[1]
                    /\ CombinedInto(user, spool_ids, spool_ids[1])]_vars

(* The history entry of a consume of row i as it was at the start.          *)
EntryOf(i) ==
    [user_id |-> initial[i].user_id, brand |-> initial[i].brand, item_id |-> i]

(* How many consumes of row i succeeded.                                    *)
Consumed(i) == CopiesIn(EntryOf(i), spool_history)

(* C20: consume spool.  Consuming an owned item with quantity > 1 takes 1   *)
(* from its quantity and keeps it; consuming one with quantity 1 adds it    *)
(* to the history and deletes it; a consume of an item that is not there    *)
(* (or not the caller's) answers 404 and changes nothing.  Hence an item    *)
(* that started with quantity q has quantity q - k after k successful       *)
(* consumes, exists exactly while k < q, and is never consumed more than q  *)
(* times.                                                                   *)
C20_Consume ==
    /\ [](\A i \in ItemIds :
             /\ Consumed(i) <= initial[i].quantity
             /\ (i \in DOMAIN inventory) <=> (Consumed(i) < initial[i].quantity)
             /\ (i \in DOMAIN inventory) =>
                   inventory[i] = [initial[i] EXCEPT !.quantity = @ - Consumed(i)])
    /\ [][\A user \in Users, item_id \in ItemIds :
             consume_spool(user, item_id) =>
                IF item_id \in Owned(user)
                THEN /\ reply'.status = 200
                     /\ Consumed(item_id)' = Consumed(item_id) + 1
                     /\ inventory[item_id].quantity > 1 =>
                           inventory' = [inventory EXCEPT ![item_id].quantity = @ - 1]
                     /\ inventory[item_id].quantity = 1 =>
                           inventory' = Without({item_id})
                ELSE /\ reply'.status = 404
                     /\ UNCHANGED <<inventory, spool_history>>]_vars

(* An item that started with more than one spool was consumed down to the   *)
(* last one and deleted, and the consume after that was answered 404.       *)
C20_Witness ==
    /\ reply.status = 404
    /\ \E i \in ItemIds :
          /\ initial[i].quantity > 1
          /\ Consumed(i) = initial[i].quantity
          /\ i \notin DOMAIN inventory

(* The diameter parse_filament_data gives for a text: the first of          *)
(* 1.75 / 2.85 / 3.00 mm the text holds, or the default.                    *)
OcrDiameter(text) ==
    IF DiaMatch(text) # None THEN DiaMatch(text) ELSE Some(DefaultDiameter)

(* C21: the diameter of the record is the one OCR parsing produced.         *)
(* parse_filament_data always sets diameter (1.75 by default, or the        *)
(* matched value), and neither the barcode-product merge nor the web merge  *)
(* changes it, whatever diameter the product lookup returns.                *)
C21_DiameterFrame ==
    Parsed =>
        /\ Get(pre_enhance, "diameter") = OcrDiameter(raw_text)
        /\ Get(pre_enhance, "diameter")[1] \in {175, 285, 300}
        /\ Get(parsed_data, "diameter") = Get(pre_enhance, "diameter")

(* The catalogue's product has a diameter other than the OCR record's, and  *)
(* the scan has returned.                                                   *)
C21_Witness ==
    /\ pc = "done"
    /\ InCalls("lookup_barcode_product")
    /\ LET p == lookup_barcode_product(barcode_data[1].data, barcode_data[1].type,
                                       response)
       IN  /\ p # None
           /\ Truthy("diameter", Get(p[1], "diameter"))
           /\ Get(p[1], "diameter") # Get(parsed_data, "diameter")

(* The rows and the history entries of the users other than user are the    *)
(* same after the step.                                                     *)
Isolated(user) ==
    \A b \in Users \ {user} :
        /\ \A i \in OwnedIn(inventory, b) :
              i \in DOMAIN inventory' /\ inventory'[i] = inventory[i]
        /\ \A e \in BagToSet(spool_history') :
              e.user_id = b => CopiesIn(e, spool_history') = CopiesIn(e, spool_history)

(* One of ids is the id of a row of another user than user.                 *)
NamesForeign(user, ids) ==
    \E i \in ids \cap DOMAIN inventory : inventory[i].user_id # user

(* The call fails with status and changes neither table.                    *)
Refused(status) ==
    /\ reply'.status = status
    /\ UNCHANGED <<inventory, spool_history>>

(* The lists combine_spools refuses for their length (main.py 163), and    *)
(* the others: each written as the image of a set, which is enumerated      *)
(* once.                                                                    *)
ShortLists == {l : l \in {spool_ids \in IdLists : Len(spool_ids) < 2}}

LongLists == {l : l \in {spool_ids \in IdLists : Len(spool_ids) >= 2}}

(* What holds of all four calls, and of a delete_item or consume_spool      *)
(* call that names another user's row.  `P \/ ~call` is `call => P`, with   *)
(* the test of the two states before the test of the call.                  *)
IsolatedCalls ==
    /\ \A user \in Users :
          \/ Isolated(user)
          \/ /\ \A item_id \in ItemIds : ~delete_item(user, item_id)
             /\ ~delete_all_inventory(user)
             /\ \A spool_ids \in ShortLists \cup LongLists :
                   ~combine_spools(user, spool_ids)
             /\ \A item_id \in ItemIds : ~consume_spool(user, item_id)
    /\ \/ Refused(404)
       \/ \A user \in Users, item_id \in ItemIds :
             NamesForeign(user, {item_id}) =>
                 ~delete_item(user, item_id) /\ ~consume_spool(user, item_id)

(* No combine_spools call of user with a list of lists that names a row of  *)
(* another user makes the step.                                             *)
NoForeignCombine(user, lists) ==
    \A spool_ids \in lists :
        ~combine_spools(user, spool_ids) \/ ~NamesForeign(user, Range(spool_ids))

(* C22: owner isolation.  No delete_item, delete_all_inventory,             *)
(* combine_spools or consume_spool call of a user modifies or deletes a row *)
(* of another user or creates a history entry for another user; a           *)
(* delete_item, consume_spool or combine_spools call that names a row of    *)
(* another user fails with the state unchanged, with 404, except that       *)
(* combine_spools with fewer than 2 ids fails with 400.                     *)
C22_OwnerIsolation ==
    [][/\ IsolatedCalls
       /\ Refused(400) \/ \A user \in Users : NoForeignCombine(user, ShortLists)
       /\ Refused(404) \/ \A user \in Users : NoForeignCombine(user, LongLists)]_vars

(* C22 as stated: every call that names a row of another user fails with    *)
(* 404 and the state unchanged, and no call touches another user's rows or  *)
(* history.                                                                 *)
C22_AlwaysNotFound ==
    [][/\ IsolatedCalls
       /\ \/ Refused(404)
          \/ \A user \in Users : NoForeignCombine(user, ShortLists \cup LongLists)]_vars

(* A call has been refused with 404 after a user consumed and lost rows,    *)
(* and the other user's rows are as at the start.                           *)
C22_Witness ==
    /\ reply = NotFound
    /\ \E a, b \in Users :
          /\ a # b
          /\ OwnedIn(initial, b) # {}
          /\ \A i \in OwnedIn(initial, b) :
                i \in DOMAIN inventory /\ inventory[i] = initial[i]
          /\ OwnedIn(inventory, a) # OwnedIn(initial, a)
          /\ \E e \in BagToSet(spool_history) : e.user_id = a
          /\ \A e \in BagToSet(spool_history) : e.user_id # b
====
